---- MODULE Spec2Model ----
(***************************************************************************)
(* Smart-irrigation decision engine (ai_engine/predictors.py and the       *)
(* comprehensive_analysis view of ai_engine/views.py).                     *)
(*                                                                         *)
(* Numbers.  The scorer divides by 70, 15 and 10 and weighs with 0.5, 0.2, *)
(* 0.2 and 0.1, so for integer readings every score is an exact multiple   *)
(* of 1/Scale, Scale = 2100.  Scores are kept as integer numerators over   *)
(* Scale; round(x, 3) becomes thousandths, round(x, 1) tenths.             *)
(***************************************************************************)
EXTENDS Integers, Sequences, FiniteSets, TLC

VARIABLES
    sensor_data,      \* sensor snapshot passed to predict_irrigation_need
    weather_data,     \* weather snapshot passed to predict_irrigation_need
    current_hour,     \* timezone.now().hour seen by that call
    pred_pc,          \* "called" until predict_irrigation_need returns
    prediction,       \* the dict the call returned
    raised,           \* TRUE iff the call let an exception escape
    health_sensor,    \* sensor snapshot passed to analyze_plant_health
    plant_data,       \* plant snapshot passed to analyze_plant_health
    health_pc,        \* "called" until analyze_plant_health returns
    health,           \* the dict analyze_plant_health returned
    health_raised,    \* TRUE iff that call let an exception escape
    instances,        \* attributes of the module-level predictor instances
    invocation,       \* per request thread: its call on the shared instances
    clock,            \* number of calls started, read as timezone.now()
    response_text,    \* text passed to _parse_real_gemini_response
    parse_sensor,     \* sensor snapshot passed with it
    parse_pc,         \* "called" until the parser returns
    parsed,           \* the dict the parser returned
    events,           \* the IrrigationEvent rows, in creation order
    ev_clock,         \* timezone.now() of the controller requests
    last_request,     \* the controller request served last and its status
    use_real_api,     \* GeminiIntegration.use_real_api, fixed by __init__
    caller,           \* "direct", or "view" for comprehensive_analysis
    all_sensor_data,  \* sensor snapshot of the comprehensive analysis
    field_params,     \* field_parameters argument
    plant_params,     \* plant_parameters argument
    a_pc,             \* position of the request in the code
    phase,            \* state of the comprehensive-analysis call
    prompt_built,     \* analysis_prompt has been assigned
    model_calls,      \* number of model.generate_content calls of this call
    parse_calls,      \* number of _parse_real_gemini_response calls
    response,         \* outcome of model.generate_content
    gemini_result,    \* the dict analyze_comprehensive_data returned
    sessions,         \* AIAnalysisSession rows, in order of creation
    insights_created, \* AIInsight rows written by the current request
    now,              \* ticks of timezone.now() within the current request
    http_status       \* status of the last response of the view

predVars == <<sensor_data, weather_data, current_hour, pred_pc, prediction, raised>>
healthVars == <<health_sensor, plant_data, health_pc, health, health_raised>>
sharedVars == <<instances, invocation, clock>>
parseVars == <<response_text, parse_sensor, parse_pc, parsed>>
eventVars == <<events, ev_clock, last_request>>
auxVars == <<parseVars, eventVars>>
coreVars == <<predVars, healthVars, sharedVars, auxVars>>

callVars == <<caller, all_sensor_data, field_params, plant_params, a_pc, phase,
              prompt_built, model_calls, parse_calls, response, gemini_result>>
viewVars == <<sessions, insights_created, now, http_status>>
analysisVars == <<use_real_api, callVars, viewVars>>
vars == <<coreVars, analysisVars>>

-----------------------------------------------------------------------------
(* Python values and dict snapshots *)

Num(n) == [kind |-> "num", v |-> n]
Null == [kind |-> "null", v |-> 0]
Str == [kind |-> "str", v |-> 0]
Absent == [kind |-> "absent", v |-> 0]

\* Readings: the thresholds of the scorer and their neighbours, and for soil
\* moisture also every tenth percent up to 10 * MaxSoilStep.
MaxSoilStep == 10
SoilValues == {24, 25, 39, 54, 55, 59} \cup {10 * k : k \in 0..MaxSoilStep}
HumidityValues == {-70, 0, 8, 40, 65, 70, 100}
TemperatureValues == {10, 20, 21, 22, 30, 35, 36, 50}
RainfallValues == {-10, 0, 8, 9, 10, 20}
Hours == {0, 7, 9, 12, 17, 19, 22}

NonNumbers == {Null, Str, Absent}
Values(S) == {Num(n) : n \in S} \cup NonNumbers

SensorSnapshots ==
    [mapping : {TRUE}, soil_moisture : Values(SoilValues),
     air_humidity : Values(HumidityValues),
     temperature : Values(TemperatureValues)]
    \cup {[mapping |-> FALSE, soil_moisture |-> Absent,
           air_humidity |-> Absent, temperature |-> Absent]}

WeatherSnapshots ==
    [mapping : {TRUE}, rainfall_forecast : Values(RainfallValues)]
    \cup {[mapping |-> FALSE, rainfall_forecast |-> Absent]}

GetZeroDefault(entry, default) == IF entry.kind = "absent" THEN Num(0) ELSE entry

\* dict.get(key, default): the stored value, or the default when the key is
\* absent.  A key stored with None is present and yields None.
Get(entry, default) == IF entry.kind = "absent" THEN Num(default) ELSE entry

Max(a, b) == IF a >= b THEN a ELSE b
Min(a, b) == IF a <= b THEN a ELSE b

-----------------------------------------------------------------------------
(* IrrigationPredictor *)

Scale == 70 * 15 * 2

moisture_score_inclusive(soil_moisture) ==
    IF soil_moisture <= 25 THEN Scale
    ELSE IF soil_moisture <= 40 THEN (8 * Scale) \div 10
    ELSE IF soil_moisture <= 60 THEN (4 * Scale) \div 10
    ELSE Scale \div 10

moisture_score_swapped(soil_moisture) ==
    IF soil_moisture < 25 THEN Scale
    ELSE IF soil_moisture < 40 THEN (4 * Scale) \div 10
    ELSE IF soil_moisture < 60 THEN (8 * Scale) \div 10
    ELSE Scale \div 10

moisture_score(soil_moisture) ==
    IF soil_moisture < 25 THEN Scale
    ELSE IF soil_moisture < 40 THEN (8 * Scale) \div 10
    ELSE IF soil_moisture < 60 THEN (4 * Scale) \div 10
    ELSE Scale \div 10

humidity_score_unfloored(air_humidity) == ((70 - air_humidity) * Scale) \div 70

humidity_score(air_humidity) == Max(0, ((70 - air_humidity) * Scale) \div 70)

temp_score(temperature) == Max(0, ((temperature - 20) * Scale) \div 15)

rain_score(rainfall) == Max(0, Scale - (rainfall * Scale) \div 10)

total_score(soil_moisture, air_humidity, temperature, rainfall) ==
    (5 * moisture_score(soil_moisture) + 2 * humidity_score(air_humidity)
     + 2 * temp_score(temperature) + 1 * rain_score(rainfall)) \div 10

_calculate_irrigation_score_unclamped(soil_moisture, air_humidity, temperature, rainfall) ==
    total_score(soil_moisture, air_humidity, temperature, rainfall)

_calculate_irrigation_score(soil_moisture, air_humidity, temperature, rainfall) ==
    Min(Scale, total_score(soil_moisture, air_humidity, temperature, rainfall))

Round3Truncated(score) == (1000 * score) \div Scale

\* round(score, 3) in thousandths.  No score n/Scale lies half-way between two
\* thousandths (20n is even, 21(2k+1) is odd), so half-even never applies.
Round3(score) == (2 * 1000 * score + Scale) \div (2 * Scale)

ConfidenceUncapped(score) == Round3(score)

\* round(min(95, score * 100), 1) in tenths.
Confidence(score) == Min(950, Round3(score))

_generate_irrigation_recommendation(score) ==
    IF 10 * score > 9 * Scale THEN "KRITIK"
    ELSE IF 10 * score > 7 * Scale THEN "Yuqori prioritet"
    ELSE IF 10 * score > 5 * Scale THEN "O'rtacha prioritet"
    ELSE IF 10 * score > 3 * Scale THEN "Past prioritet"
    ELSE "Sug'orish kerak emas"

_calculate_optimal_timing_avoid_from_9(hour) ==
    IF 6 <= hour /\ hour <= 8
      THEN [timing |-> "optimal", next_optimal |-> "Bugun kechqurun 18:00-20:00"]
    ELSE IF 18 <= hour /\ hour <= 20
      THEN [timing |-> "optimal", next_optimal |-> "Ertaga ertalab 06:00-08:00"]
    ELSE IF 9 <= hour /\ hour <= 16
      THEN [timing |-> "avoid", next_optimal |-> "Bugun kechqurun 18:00-20:00"]
    ELSE [timing |-> "acceptable", next_optimal |-> "Ertalab 06:00-08:00"]

_calculate_optimal_timing(hour) ==
    IF 6 <= hour /\ hour <= 8
      THEN [timing |-> "optimal", next_optimal |-> "Bugun kechqurun 18:00-20:00"]
    ELSE IF 18 <= hour /\ hour <= 20
      THEN [timing |-> "optimal", next_optimal |-> "Ertaga ertalab 06:00-08:00"]
    ELSE IF 10 <= hour /\ hour <= 16
      THEN [timing |-> "avoid", next_optimal |-> "Bugun kechqurun 18:00-20:00"]
    ELSE [timing |-> "acceptable", next_optimal |-> "Ertalab 06:00-08:00"]

_calculate_duration(soil_moisture) ==
    IF soil_moisture < 25 THEN 20
    ELSE IF soil_moisture < 40 THEN 15
    ELSE IF soil_moisture < 55 THEN 10
    ELSE 5

\* Readings for which the double product base_amount * moisture_factor *
\* temp_factor lies just below its exact value, a whole number: int() then
\* returns one less (20, 21: 204.99999999999997).  For every other pair of
\* modelled readings the double truncates as the exact product does.
DoubleFallsShort(soil_moisture, temperature) ==
    <<soil_moisture, temperature>> \in {<<20, 21>>, <<24, 36>>, <<25, 36>>}

\* int(300 * max(0.5, (60 - m) / 60) * (1 + max(0, (t - 20) / 40))); in
\* exact arithmetic the product is
\* max(30, 60 - m) * (40 + max(0, t - 20)) / 8.
_calculate_water_amount(soil_moisture, temperature) ==
    (Max(30, 60 - soil_moisture) * (40 + Max(0, temperature - 20))) \div 8
    - (IF DoubleFallsShort(soil_moisture, temperature) THEN 1 ELSE 0)

_generate_reasoning(soil_moisture, air_humidity, temperature, rainfall) ==
    LET r1 == IF soil_moisture < 30 THEN <<"moisture critical">>
              ELSE IF soil_moisture < 50 THEN <<"moisture below optimal">>
              ELSE <<>>
        r2 == IF air_humidity < 50 THEN <<"humidity low">> ELSE <<>>
        r3 == IF temperature > 28 THEN <<"temperature high">> ELSE <<>>
        r4 == IF rainfall < 2 THEN <<"no rain expected">> ELSE <<>>
        reasons == r1 \o r2 \o r3 \o r4
    IN  IF reasons = <<>> THEN <<"all nominal">> ELSE reasons

NoTiming == [timing |-> "", next_optimal |-> ""]

\* The dict returned from the except branch; fields it does not carry are
\* left out of keys.
ErrorPrediction(exc) ==
    [keys |-> {"error", "need_irrigation", "confidence_score", "recommendation"},
     error |-> exc,
     need_irrigation |-> FALSE,
     irrigation_score |-> 0,
     confidence_score |-> 0,
     recommendation |-> "AI tahlil xatosi",
     optimal_timing |-> NoTiming,
     reasoning |-> <<>>,
     predicted_duration_minutes |-> 0,
     water_amount_ml |-> 0]

\* The exception the try body raises, "" when it runs to its return.
\* sensor_data.get / weather_data.get need a mapping (AttributeError);
\* comparing or subtracting None or a str with a number is a TypeError.
PredictException(sensor, weather) ==
    IF ~sensor.mapping \/ ~weather.mapping THEN "AttributeError"
    ELSE IF \/ Get(sensor.soil_moisture, 50).kind # "num"
            \/ Get(sensor.air_humidity, 60).kind # "num"
            \/ Get(sensor.temperature, 25).kind # "num"
            \/ Get(weather.rainfall_forecast, 0).kind # "num"
         THEN "TypeError"
    ELSE ""

\* The try body of predict_irrigation_need when nothing raises.
PredictBody(sensor, weather, hour) ==
    LET soil_moisture == Get(sensor.soil_moisture, 50).v
        air_humidity == Get(sensor.air_humidity, 60).v
        temperature == Get(sensor.temperature, 25).v
        rainfall_forecast == Get(weather.rainfall_forecast, 0).v
        irrigation_score == _calculate_irrigation_score(
            soil_moisture, air_humidity, temperature, rainfall_forecast)
    IN  [keys |-> {"need_irrigation", "irrigation_score", "confidence_score",
                   "recommendation", "optimal_timing", "reasoning",
                   "predicted_duration_minutes", "water_amount_ml",
                   "model_version", "timestamp"},
         error |-> "",
         need_irrigation |-> (10 * irrigation_score > 7 * Scale),
         irrigation_score |-> Round3(irrigation_score),
         confidence_score |-> Confidence(irrigation_score),
         recommendation |-> _generate_irrigation_recommendation(irrigation_score),
         optimal_timing |-> _calculate_optimal_timing(hour),
         reasoning |-> _generate_reasoning(
             soil_moisture, air_humidity, temperature, rainfall_forecast),
         predicted_duration_minutes |-> _calculate_duration(soil_moisture),
         water_amount_ml |-> _calculate_water_amount(soil_moisture, temperature)]

PredictCatchesTypeErrorOnly(exc) == exc = "TypeError"

\* except Exception: every exception of the body is caught.
PredictCatches(exc) == TRUE

predict_irrigation_need(sensor, weather, hour) ==
    LET exc == PredictException(sensor, weather)
    IN  IF exc = "" THEN [raised |-> FALSE, value |-> PredictBody(sensor, weather, hour)]
        ELSE IF PredictCatches(exc) THEN [raised |-> FALSE, value |-> ErrorPrediction(exc)]
        ELSE [raised |-> TRUE, value |-> ErrorPrediction(exc)]

-----------------------------------------------------------------------------
(* PlantHealthAnalyzer *)

\* pH is kept in tenths (6.8 is 68); heights and days are whole numbers.
HealthSoilValues == {20, 24, 25, 29, 30, 44, 45, 50, 60, 70, 90, 95}
HealthTemperatureValues == {9, 10, 14, 15, 22, 28, 29, 30, 32, 33, 35, 36}
PhValues == {54, 55, 59, 60, 68, 75, 76, 80, 81}
DaysValues == {-5, 0, 1, 10, 36, 50}
HeightValues == {-80, 0, 23, 30, 40, 48, 100}

HealthSensors ==
    [mapping : {TRUE}, soil_moisture : Values(HealthSoilValues),
     temperature : Values(HealthTemperatureValues), ph : Values(PhValues)]
    \cup {[mapping |-> FALSE, soil_moisture |-> Absent,
           temperature |-> Absent, ph |-> Absent]}

PlantSnapshots ==
    [mapping : {TRUE}, days_since_planted : Values(DaysValues),
     height : Values(HeightValues)]
    \cup {[mapping |-> FALSE, days_since_planted |-> Absent, height |-> Absent]}

\* A score on the 0..1 scale as the exact fraction num / den, den > 0.
Frac(num, den) == [num |-> num, den |-> den]

RoundPercentWhole(num, den) == 10 * ((2 * 100 * num + den) \div (2 * den))

\* round(100 * num / den, 1) in tenths, the nearest tenth.
RoundPercent(num, den) == (2 * 1000 * num + den) \div (2 * den)

_assess_growth_rate_capped_at_1_2(plant) ==
    LET days == Get(plant.days_since_planted, 0).v
        height == Get(plant.height, 0).v
    IN  IF days > 0
          THEN Frac(Min(24 * days, 25 * height), 20 * days)
          ELSE Frac(1, 2)

\* expected_height = days * 0.8, so height / expected_height is
\* 25 * height / (20 * days), 1.2 is 24 * days and 1.0 is 20 * days over
\* the same denominator.
_assess_growth_rate(plant) ==
    LET days == Get(plant.days_since_planted, 0).v
        height == Get(plant.height, 0).v
    IN  IF days > 0
          THEN Frac(Min(20 * days, Min(24 * days, 25 * height)), 20 * days)
          ELSE Frac(1, 2)

SeqMax(q) == CHOOSE x \in {q[i] : i \in 1..Len(q)} : \A i \in 1..Len(q) : q[i] <= x

\* The list stress_factors, in tenths.
StressFactors(sensor) ==
    LET soil_moisture == Get(sensor.soil_moisture, 50).v
        temperature == Get(sensor.temperature, 25).v
        ph == Get(sensor.ph, 68).v
    IN  (IF soil_moisture < 30 THEN <<8>>
         ELSE IF soil_moisture < 45 THEN <<4>> ELSE <<>>)
        \o (IF temperature > 32 \/ temperature < 10 THEN <<9>>
            ELSE IF temperature > 28 \/ temperature < 15 THEN <<3>> ELSE <<>>)
        \o (IF ph < 55 \/ ph > 80 THEN <<7>>
            ELSE IF ph < 60 \/ ph > 75 THEN <<2>> ELSE <<>>)

_detect_stress_indicators_summed(sensor) ==
    LET f == StressFactors(sensor)
        at(i) == IF i <= Len(f) THEN f[i] ELSE 0
    IN  IF f = <<>> THEN 1 ELSE Min(10, at(1) + at(2) + at(3))

\* max(stress_factors) if stress_factors else 0.1, in tenths.
_detect_stress_indicators(sensor) ==
    IF StressFactors(sensor) = <<>> THEN 1 ELSE SeqMax(StressFactors(sensor))

\* sum(factors) / len(factors) over the two factors, in twentieths.
_evaluate_environment(sensor) ==
    LET soil_moisture == Get(sensor.soil_moisture, 50).v
        temperature == Get(sensor.temperature, 25).v
        f1 == IF 60 <= soil_moisture /\ soil_moisture <= 80 THEN 10
              ELSE IF \/ 40 <= soil_moisture /\ soil_moisture < 60
                      \/ 80 < soil_moisture /\ soil_moisture <= 90 THEN 7
              ELSE 3
        f2 == IF 18 <= temperature /\ temperature <= 26 THEN 10
              ELSE IF \/ 15 <= temperature /\ temperature < 18
                      \/ 26 < temperature /\ temperature <= 30 THEN 7
              ELSE 3
    IN  f1 + f2

\* (growth_score + environment_score + (1 - stress_score)) / 3 as the
\* doubles compute it.  A sum of exactly 1.2 divides to
\* 0.39999999999999997, below the double 0.4: it is kept as a fraction
\* just under 2/5 that rounds as the double does.  At 0.6, 0.75 and 0.9
\* the double equals the threshold.
OverallHealth(growth, environment, stress) ==
    LET num == 20 * growth.num + environment * growth.den
               + 2 * (10 - stress) * growth.den
        den == 60 * growth.den
    IN  IF 10 * num = 4 * den THEN Frac(3999, 10000) ELSE Frac(num, den)

_classify_health_status(health_score) ==
    IF 10 * health_score.num >= 9 * health_score.den THEN "A'lo"
    ELSE IF 4 * health_score.num >= 3 * health_score.den THEN "Yaxshi"
    ELSE IF 10 * health_score.num >= 6 * health_score.den THEN "O'rtacha"
    ELSE IF 10 * health_score.num >= 4 * health_score.den THEN "Yomon"
    ELSE "Kritik"

_generate_health_recommendations(growth, stress, environment, sensor) ==
    LET soil_moisture == Get(sensor.soil_moisture, 50).v
        temperature == Get(sensor.temperature, 25).v
        ph == Get(sensor.ph, 68).v
        r1 == IF stress > 6
                THEN <<"reduce stress">>
                     \o (IF soil_moisture < 40 THEN <<"irrigate more often">> ELSE <<>>)
                ELSE <<>>
        r2 == IF 10 * growth.num < 6 * growth.den
                THEN <<"stimulate growth", "consider fertilizer">> ELSE <<>>
        r3 == IF environment < 14
                THEN (IF temperature > 30 THEN <<"lower temperature">> ELSE <<>>)
                     \o (IF ph < 60 \/ ph > 75 THEN <<"adjust pH">> ELSE <<>>)
                ELSE <<>>
        recommendations == r1 \o r2 \o r3
    IN  IF recommendations = <<>> THEN <<"keep current care">> ELSE recommendations

_identify_risk_factors_from_0_7(sensor, stress) ==
    (IF stress >= 7
       THEN <<[type |-> "high_stress", severity |-> "high",
               action |-> "Darhol choralar ko'ring"]>> ELSE <<>>)
    \o (IF Get(sensor.soil_moisture, 50).v < 25
          THEN <<[type |-> "drought_stress", severity |-> "critical",
                  action |-> "Darhol sug'orish kerak"]>> ELSE <<>>)
    \o (IF Get(sensor.temperature, 25).v > 35
          THEN <<[type |-> "heat_stress", severity |-> "high",
                  action |-> "Soyalash yoki sovutish choralarini ko'ring"]>>
          ELSE <<>>)

_identify_risk_factors(sensor, stress) ==
    (IF stress > 7
       THEN <<[type |-> "high_stress", severity |-> "high",
               action |-> "Darhol choralar ko'ring"]>> ELSE <<>>)
    \o (IF Get(sensor.soil_moisture, 50).v < 25
          THEN <<[type |-> "drought_stress", severity |-> "critical",
                  action |-> "Darhol sug'orish kerak"]>> ELSE <<>>)
    \o (IF Get(sensor.temperature, 25).v > 35
          THEN <<[type |-> "heat_stress", severity |-> "high",
                  action |-> "Soyalash yoki sovutish choralarini ko'ring"]>>
          ELSE <<>>)

\* The dict returned from the except branch.
ErrorHealth(exc) ==
    [keys |-> {"error", "overall_health_score", "health_status"},
     error |-> exc, overall_health_score |-> 0, health_status |-> "unknown",
     growth_score |-> 0, stress_level |-> 0, environment_score |-> 0,
     recommendations |-> <<>>, risk_factors |-> <<>>]

\* The exception the try body raises, "" when it runs to its return.
\* None * 0.8 and 'abc' * 0.8 are TypeErrors; the height is divided only
\* when the expected height is positive.
HealthException(sensor, plant) ==
    IF ~plant.mapping THEN "AttributeError"
    ELSE IF Get(plant.days_since_planted, 0).kind # "num" THEN "TypeError"
    ELSE IF /\ Get(plant.days_since_planted, 0).v > 0
            /\ Get(plant.height, 0).kind # "num" THEN "TypeError"
    ELSE IF ~sensor.mapping THEN "AttributeError"
    ELSE IF \/ Get(sensor.soil_moisture, 50).kind # "num"
            \/ Get(sensor.temperature, 25).kind # "num"
            \/ Get(sensor.ph, 68).kind # "num"
         THEN "TypeError"
    ELSE ""

\* The try body of analyze_plant_health when nothing raises.
HealthBody(sensor, plant) ==
    LET growth_score == _assess_growth_rate(plant)
        stress_score == _detect_stress_indicators(sensor)
        environment_score == _evaluate_environment(sensor)
        overall_health == OverallHealth(growth_score, environment_score, stress_score)
    IN  [keys |-> {"overall_health_score", "health_status", "growth_score",
                   "stress_level", "environment_score", "recommendations",
                   "risk_factors", "model_version", "timestamp"},
         error |-> "",
         overall_health_score |-> RoundPercent(overall_health.num, overall_health.den),
         health_status |-> _classify_health_status(overall_health),
         growth_score |-> RoundPercent(growth_score.num, growth_score.den),
         stress_level |-> 100 * stress_score,
         environment_score |-> 50 * environment_score,
         recommendations |-> _generate_health_recommendations(
             growth_score, stress_score, environment_score, sensor),
         risk_factors |-> _identify_risk_factors(sensor, stress_score)]

HealthCatchesTypeErrorOnly(exc) == exc = "TypeError"

\* except Exception: every exception of the body is caught.
HealthCatches(exc) == TRUE

analyze_plant_health(sensor, plant) ==
    LET exc == HealthException(sensor, plant)
    IN  IF exc = "" THEN [raised |-> FALSE, value |-> HealthBody(sensor, plant)]
        ELSE IF HealthCatches(exc) THEN [raised |-> FALSE, value |-> ErrorHealth(exc)]
        ELSE [raised |-> TRUE, value |-> ErrorHealth(exc)]

-----------------------------------------------------------------------------
(* The module-level instances shared by all request threads *)

MaxClock == 3
Threads == {1, 2}

\* irrigation_predictor and plant_health_analyzer after __init__
\* (accuracy 94.2 in tenths).
ModuleInstances ==
    [irrigation_predictor |-> [model_version |-> "1.2.3", accuracy |-> 942],
     plant_health_analyzer |-> [model_version |-> "2.1.0"]]

SharedIrrigationArgs ==
    {[sensor |-> s, other |-> w] :
        s \in {[mapping |-> TRUE, soil_moisture |-> Num(20), air_humidity |-> Num(8),
                temperature |-> Num(21)],
               [mapping |-> TRUE, soil_moisture |-> Num(60), air_humidity |-> Absent,
                temperature |-> Null]},
        w \in {[mapping |-> TRUE, rainfall_forecast |-> Num(9)],
               [mapping |-> TRUE, rainfall_forecast |-> Absent]}}

SharedHealthArgs ==
    {[sensor |-> s, other |-> p] :
        s \in {[mapping |-> TRUE, soil_moisture |-> Num(20), temperature |-> Num(35),
                ph |-> Absent],
               [mapping |-> TRUE, soil_moisture |-> Num(70), temperature |-> Num(22),
                ph |-> Num(68)]},
        p \in {[mapping |-> TRUE, days_since_planted |-> Num(50), height |-> Num(30)],
               [mapping |-> FALSE, days_since_planted |-> Absent, height |-> Absent]}}

SharedHours == {7, 12, 22}

InstancesAfterCallVersioned(self, fn) ==
    [self EXCEPT !.irrigation_predictor.model_version = fn,
                 !.plant_health_analyzer.model_version = fn]

\* Neither method, nor any helper it calls, assigns to an attribute of
\* self: the instances after a call are the instances before it.
InstancesAfterCall(self, fn) == self

\* The dict a call returns: the scoring fields, the model_version read
\* from the instance and the timestamp, both absent from an error dict.
Invoke(self, fn, args, hour, time) ==
    LET value == IF fn = "predict_irrigation_need"
                   THEN predict_irrigation_need(args.sensor, args.other, hour).value
                   ELSE analyze_plant_health(args.sensor, args.other).value
        instance == IF fn = "predict_irrigation_need"
                      THEN self.irrigation_predictor
                      ELSE self.plant_health_analyzer
    IN  [value |-> value,
         model_version |-> IF "model_version" \in value.keys
                             THEN instance.model_version ELSE "",
         timestamp |-> IF "timestamp" \in value.keys THEN time ELSE 0]

-----------------------------------------------------------------------------
(* GeminiIntegration.analyze_comprehensive_data *)

\* Response texts are kept as their length and the set of keywords that
\* occur in text.lower(); the code reads nothing else of a text.
Text(len, kw) == [len |-> len, kw |-> kw]
EmptyText == Text(0, {})
TextLengths == {20, 150, 250}
TextKeywords == {{}, {"critical"}, {"kritik"}, {"urgent"}, {"darhol"}}
NonEmptyTexts == {Text(n, kw) : n \in TextLengths, kw \in TextKeywords}

\* model.generate_content(prompt) followed by response.text: the call or the
\* property raises, or there is a text, possibly empty.
Raises == [kind |-> "raises", text |-> EmptyText]
Answer(t) == [kind |-> "text", text |-> t]
NoResponse == [kind |-> "none", text |-> EmptyText]
Responses == {Raises, Answer(EmptyText)} \cup {Answer(t) : t \in NonEmptyTexts}

\* all_sensor_data: a mapping whose soil_moisture entry is absent, a number,
\* None or a string; or something that is not a mapping.
AnalysisSoilValues == {20, 30, 50}
AnalysisSensors ==
    [mapping : {TRUE}, soil_moisture : Values(AnalysisSoilValues)]
    \cup {[mapping |-> FALSE, soil_moisture |-> Absent]}

\* field_params: None, {} or {'field_size': 100}.
FieldParams == {"None", "empty", "sized"}
\* plant_params: None, {}, {'plant_type': 'tomato'}, {'plant_count': 0} or
\* {'plant_count': 4}.
PlantParams == {"None", "empty", "typed", "count0", "counted"}
Truthy(params) == params \notin {"None", "empty"}

\* The exception _build_analysis_prompt raises, "" when it returns a prompt.
_build_analysis_prompt(sensor, fp, pp) ==
    IF Truthy(fp) /\ Truthy(pp) /\ pp = "count0" THEN "ZeroDivisionError"
    ELSE IF Truthy(pp) /\ fp = "None" THEN "AttributeError"
    ELSE IF Truthy(pp) /\ pp = "count0" THEN "ZeroDivisionError"
    ELSE IF ~sensor.mapping THEN "AttributeError"
    ELSE ""

SuccessKeys ==
    {"gemini_analysis", "insights", "action_plan", "confidence_score",
     "analysis_timestamp", "source", "model", "prompt_length", "response_length"}
ParsedKeys ==
    {"irrigation_recommendation", "irrigation_urgency", "detailed_reasoning",
     "optimal_timing", "irrigation_amount", "irrigation_duration",
     "irrigation_method", "plant_health_assessment", "risk_factors",
     "environmental_recommendations", "confidence_level", "gemini_raw_response",
     "response_length", "parsing_timestamp"}
ParseErrorKeys == {"error", "message", "raw_response", "source"}

NoAnalysis ==
    [keys |-> {}, source |-> "", irrigation_recommendation |-> "",
     irrigation_urgency |-> "", optimal_timing |-> "", irrigation_amount |-> "",
     risk_factors |-> <<>>, environmental_recommendations |-> <<>>]

\* any(word in response_lower for word in words)
AnyWord(text, words) == text.kw \cap words # {}

\* "cyr:kritik" and "cyr:zuur" stand for the two keywords written in
\* Cyrillic letters; "kritik" in Latin letters is a different string.
CriticalWords == {"cyr:kritik", "critical", "urgent", "darhol", "cyr:zuur"}
HighWords == {"yuqori", "high", "prioritet", "tavsiya"}
ModerateWords == {"sug'orish", "irrigation", "water"}
MorningWords == {"ertalab", "morning", "6:00", "7:00", "8:00"}
EveningWords == {"kechqurun", "evening", "18:00", "19:00", "20:00"}

UrgencyHighFirst(text) ==
    IF AnyWord(text, HighWords) THEN "high"
    ELSE IF AnyWord(text, CriticalWords) THEN "critical"
    ELSE IF AnyWord(text, ModerateWords) THEN "moderate"
    ELSE "low"

\* The if / elif chain that sets irrigation_urgency.
Urgency(text) ==
    IF AnyWord(text, CriticalWords) THEN "critical"
    ELSE IF AnyWord(text, HighWords) THEN "high"
    ELSE IF AnyWord(text, ModerateWords) THEN "moderate"
    ELSE "low"

\* irrigation_need, set in the same branch as irrigation_urgency.
IrrigationNeed(text) ==
    IF AnyWord(text, CriticalWords) THEN "KRITIK - Darhol sug'orish kerak"
    ELSE IF AnyWord(text, HighWords) THEN "YUQORI - Tez sug'orish tavsiya etiladi"
    ELSE IF AnyWord(text, ModerateWords) THEN "O'RTACHA - Sug'orish rejalashtiring"
    ELSE "YAXSHI - Hozircha kerak emas"

ParsedTiming(text) ==
    IF AnyWord(text, MorningWords) THEN "Ertalab 6:00-8:00"
    ELSE IF AnyWord(text, EveningWords) THEN "Kechqurun 18:00-20:00"
    ELSE "Optimal vaqtni tanlang"

ParsedAmount(sensor) ==
    LET soil_moisture == Get(sensor.soil_moisture, 50).v
    IN  IF soil_moisture < 25 THEN "400-500ml"
        ELSE IF soil_moisture < 40 THEN "300-400ml"
        ELSE "200-300ml"

NoRiskSentinel == "Hech qanday kritik xavf aniqlanmadi"

_extract_risks_from_response_with_sentinel(text) ==
    (IF AnyWord(text, {"kritik", "critical", "urgent"})
       THEN <<"Kritik suv tanqisligi">> ELSE <<>>)
    \o (IF AnyWord(text, {"issiq", "hot", "temperature"})
          THEN <<"Yuqori harorat stressi">> ELSE <<>>)
    \o (IF AnyWord(text, {"bug'lan", "evaporation"})
          THEN <<"Tez namlik yo'qolishi">> ELSE <<>>)
    \o <<NoRiskSentinel>>

_extract_risks_from_response(text) ==
    LET risks ==
            (IF AnyWord(text, {"kritik", "critical", "urgent"})
               THEN <<"Kritik suv tanqisligi">> ELSE <<>>)
            \o (IF AnyWord(text, {"issiq", "hot", "temperature"})
                  THEN <<"Yuqori harorat stressi">> ELSE <<>>)
            \o (IF AnyWord(text, {"bug'lan", "evaporation"})
                  THEN <<"Tez namlik yo'qolishi">> ELSE <<>>)
    IN  IF risks # <<>> THEN risks ELSE <<NoRiskSentinel>>

NoEnvSentinel == "Hozirgi muhit yetarli"

_extract_env_recommendations(text) ==
    LET recommendations ==
            (IF AnyWord(text, {"mulch"})
               THEN <<"Mulch qo'llash - suv tejash">> ELSE <<>>)
            \o (IF AnyWord(text, {"soyalash", "shade"})
                  THEN <<"Soyalash to'rlari o'rnatish">> ELSE <<>>)
            \o (IF AnyWord(text, {"drenaj", "drainage"})
                  THEN <<"Drenaj tizimini yaxshilash">> ELSE <<>>)
    IN  IF recommendations # <<>> THEN recommendations ELSE <<NoEnvSentinel>>

\* The exception the try body of _parse_real_gemini_response raises: the
\* comparison soil_moisture < 25 on a value that is not a number.
ParseException(sensor) ==
    IF ~sensor.mapping THEN "AttributeError"
    ELSE IF Get(sensor.soil_moisture, 50).kind # "num" THEN "TypeError" ELSE ""

_parse_real_gemini_response(text, sensor) ==
    IF ParseException(sensor) = ""
      THEN [keys |-> ParsedKeys, source |-> "",
            irrigation_recommendation |-> IrrigationNeed(text),
            irrigation_urgency |-> Urgency(text),
            optimal_timing |-> ParsedTiming(text),
            irrigation_amount |-> ParsedAmount(sensor),
            risk_factors |-> _extract_risks_from_response(text),
            environmental_recommendations |-> _extract_env_recommendations(text)]
      ELSE [NoAnalysis EXCEPT !.keys = ParseErrorKeys, !.source = "PARSE_ERROR"]

_extract_insights_from_real_response(text) ==
    (IF text.len > 100 THEN <<"ai_analysis">> ELSE <<>>)
    \o (IF text.kw \cap {"kritik", "critical"} # {} THEN <<"urgent_action">> ELSE <<>>)

_generate_action_plan_from_response(text) ==
    (IF text.kw \cap {"kritik", "critical", "urgent"} # {}
       THEN <<"immediate_irrigation">> ELSE <<>>)
    \o <<"monitor_sensors">>
    \o (IF text.len > 200 THEN <<"implement_recommendations">> ELSE <<>>)

\* random.uniform(92, 98), to the integer.
RealConfidences == {92, 95, 98}

NoResult ==
    [keys |-> {}, error |-> "", source |-> "", confidence_score |-> 0,
     gemini_analysis |-> NoAnalysis, insights |-> <<>>, action_plan |-> <<>>]

KeyMissingResult ==
    [keys |-> {"error", "message", "required_action", "source"},
     error |-> "GEMINI_API_KEY_REQUIRED", source |-> "API_KEY_MISSING",
     confidence_score |-> 0,
     gemini_analysis |-> NoAnalysis, insights |-> <<>>, action_plan |-> <<>>]

ApiFailedResult(exc) ==
    [keys |-> {"error", "message", "required_action", "confidence_score",
               "source", "analysis_timestamp", "api_error_details"},
     error |-> exc, source |-> "API_CALL_FAILED", confidence_score |-> 0,
     gemini_analysis |-> NoAnalysis, insights |-> <<>>, action_plan |-> <<>>]

SuccessResult(text, sensor, confidence) ==
    [keys |-> SuccessKeys, error |-> "", source |-> "REAL_GEMINI_API",
     confidence_score |-> confidence,
     gemini_analysis |-> _parse_real_gemini_response(text, sensor),
     insights |-> _extract_insights_from_real_response(text),
     action_plan |-> _generate_action_plan_from_response(text)]

Terminal == {"PARSED_OK", "PARSE_FAILED", "MODEL_CALL_FAILED"}

\* if not self.use_real_api: return the API_KEY_MISSING dict.
CheckConfigured ==
    /\ a_pc = "check"
    /\ IF use_real_api
         THEN /\ a_pc' = "build"
              /\ UNCHANGED <<phase, gemini_result>>
         ELSE /\ a_pc' = "returned"
              /\ phase' = "MODEL_CALL_FAILED"
              /\ gemini_result' = KeyMissingResult
    /\ UNCHANGED <<caller, all_sensor_data, field_params, plant_params,
                   prompt_built, model_calls, parse_calls, response>>
    /\ UNCHANGED <<use_real_api, viewVars, coreVars>>

PromptFailureIgnored(exc) == "call"

\* Where the try body continues after _build_analysis_prompt: an exception
\* leaves for the except clause.
AfterPrompt(exc) == IF exc = "" THEN "call" ELSE "except"

BuildPrompt ==
    /\ a_pc = "build"
    /\ LET exc == _build_analysis_prompt(all_sensor_data, field_params, plant_params)
       IN  IF AfterPrompt(exc) = "call"
             THEN /\ a_pc' = "call"
                  /\ phase' = "PROMPT_BUILT"
                  /\ prompt_built' = (exc = "")
                  /\ UNCHANGED gemini_result
             ELSE /\ a_pc' = "returned"
                  /\ phase' = "MODEL_CALL_FAILED"
                  /\ gemini_result' = ApiFailedResult(exc)
                  /\ UNCHANGED prompt_built
    /\ UNCHANGED <<caller, all_sensor_data, field_params, plant_params,
                   model_calls, parse_calls, response>>
    /\ UNCHANGED <<use_real_api, viewVars, coreVars>>

ResponseFailsOnRaiseOnly(resp) == resp.kind = "raises"

\* The call raised, or "if not response.text: raise Exception(...)".
ResponseFails(resp) == resp.kind = "raises" \/ resp.text.len = 0

AfterFailedCallRetried == "call"

\* The except clause returns the error dict: there is no loop around
\* generate_content and no second call.
AfterFailedCall == "returned"

CallModel ==
    /\ a_pc = "call"
    /\ \E resp \in Responses :
        /\ response' = resp
        /\ model_calls' = model_calls + 1
        /\ IF ResponseFails(resp)
             THEN /\ a_pc' = AfterFailedCall
                  /\ phase' = "MODEL_CALL_FAILED"
                  /\ gemini_result' = ApiFailedResult(
                        IF resp.kind = "raises" THEN "Exception" ELSE "Empty response")
             ELSE /\ a_pc' = "parse"
                  /\ phase' = "MODEL_CALLED"
                  /\ UNCHANGED gemini_result
    /\ UNCHANGED <<caller, all_sensor_data, field_params, plant_params,
                   prompt_built, parse_calls>>
    /\ UNCHANGED <<use_real_api, viewVars, coreVars>>

\* _parse_real_gemini_response catches its own exception and returns a dict,
\* so the try body goes on to build the success dict and returns it.
ParseResponse ==
    /\ a_pc = "parse"
    /\ \E confidence \in RealConfidences :
        gemini_result' = SuccessResult(response.text, all_sensor_data, confidence)
    /\ parse_calls' = parse_calls + 1
    /\ phase' = IF ParseException(all_sensor_data) = "" THEN "PARSED_OK" ELSE "PARSE_FAILED"
    /\ a_pc' = "returned"
    /\ UNCHANGED <<caller, all_sensor_data, field_params, plant_params,
                   prompt_built, model_calls, response>>
    /\ UNCHANGED <<use_real_api, viewVars, coreVars>>

-----------------------------------------------------------------------------
(* Irrigation events: controller/views.py and plant/views.py *)

MaxEvents == 3
MaxTicks == 4

Plants == {1, 2}

\* zone.plants_in_zone for the active zones: Plant rows whose location
\* contains the zone name, so two zones may share a plant.
ZonePlants == [z1 |-> {1}, z2 |-> {1, 2}]
Zones == DOMAIN ZonePlants

ActiveStatus == {"scheduled", "in_progress"}

\* A time of 0 is None; actual_duration_minutes of -1 is None.
NewEvent(plant, status, start) ==
    [plant |-> plant, status |-> status, start_time |-> start, end_time |-> 0,
     actual_duration_minutes |-> -1]

HasActiveEvent(rows, plant) ==
    \E i \in 1..Len(rows) : rows[i].plant = plant /\ rows[i].status \in ActiveStatus

\* The plants a zone loop visits, in ascending order.
RECURSIVE PlantOrder(_)
PlantOrder(ps) ==
    IF ps = {} THEN <<>>
    ELSE LET p == CHOOSE x \in ps : \A y \in ps : x <= y
         IN  <<p>> \o PlantOrder(ps \ {p})

\* for plant in plants_in_zone: create an in_progress event unless the
\* plant already has a scheduled or in_progress one.
RECURSIVE StartPlants(_, _, _)
StartPlants(rows, plants, time) ==
    IF plants = <<>> THEN rows
    ELSE StartPlants(
             IF HasActiveEvent(rows, Head(plants))
               THEN rows
               ELSE Append(rows, NewEvent(Head(plants), "in_progress", time)),
             Tail(plants), time)

\* for plant in plants_in_zone: create a scheduled event, with no look at
\* the events the plant already has.
RECURSIVE TriggerPlants(_, _)
TriggerPlants(rows, plants) ==
    IF plants = <<>> THEN rows
    ELSE TriggerPlants(Append(rows, NewEvent(Head(plants), "scheduled", 0)),
                       Tail(plants))

\* The zones of a start request: every active zone for 'all'.
RequestZones(zone_id) == IF zone_id = "all" THEN <<"z1", "z2">> ELSE <<zone_id>>

RECURSIVE StartZones(_, _, _)
StartZones(rows, zones, time) ==
    IF zones = <<>> THEN rows
    ELSE StartZones(StartPlants(rows, PlantOrder(ZonePlants[Head(zones)]), time),
                    Tail(zones), time)

\* The loop body of stop_irrigation on one in_progress event.
StopEvent(event, time) ==
    [event EXCEPT !.status = "completed",
                  !.end_time = time,
                  !.actual_duration_minutes =
                      IF event.start_time # 0 THEN time - event.start_time ELSE @]

\* The loop body of emergency_stop: event.status is assigned 'cancelled'
\* first and compared with 'in_progress' afterwards.
CancelEvent(event, time) ==
    LET status == "cancelled"
        timed == status = "in_progress" /\ event.start_time # 0
    IN  [event EXCEPT !.status = status,
                      !.end_time = IF timed THEN time ELSE @,
                      !.actual_duration_minutes =
                          IF timed THEN time - event.start_time ELSE @]

Served(view) == last_request' = [view |-> view, http |-> 200]

EventFrame == UNCHANGED <<predVars, healthVars, sharedVars, parseVars, analysisVars>>

start_irrigation ==
    /\ ev_clock < MaxTicks
    /\ ev_clock' = ev_clock + 1
    /\ \E zone_id \in Zones \cup {"all"} :
        LET rows == StartZones(events, RequestZones(zone_id), ev_clock')
        IN  /\ Len(rows) <= MaxEvents
            /\ events' = rows
    /\ Served("start_irrigation")
    /\ EventFrame

\* trigger_irrigation with a plant_id, or with a zone_id.
trigger_irrigation ==
    /\ ev_clock < MaxTicks
    /\ ev_clock' = ev_clock + 1
    /\ \E plants \in {<<p>> : p \in Plants}
                     \cup {PlantOrder(ZonePlants[z]) : z \in Zones} :
        /\ Len(events) + Len(plants) <= MaxEvents
        /\ events' = TriggerPlants(events, plants)
    /\ Served("trigger_irrigation")
    /\ EventFrame

stop_irrigation ==
    /\ ev_clock < MaxTicks
    /\ ev_clock' = ev_clock + 1
    /\ events' = [i \in 1..Len(events) |->
                     IF events[i].status = "in_progress"
                       THEN StopEvent(events[i], ev_clock') ELSE events[i]]
    /\ Served("stop_irrigation")
    /\ EventFrame

emergency_stop ==
    /\ ev_clock < MaxTicks
    /\ ev_clock' = ev_clock + 1
    /\ events' = [i \in 1..Len(events) |->
                     IF events[i].status \in ActiveStatus
                       THEN CancelEvent(events[i], ev_clock') ELSE events[i]]
    /\ Served("emergency_stop")
    /\ EventFrame

-----------------------------------------------------------------------------
(* comprehensive_analysis view *)

\* Requests the view serves in one run of the model.
MaxRequests == 2

\* The view fills sensors_data from generated readings: a sensor kind is
\* absent or has a number.
ViewSensors ==
    [mapping : {TRUE},
     soil_moisture : {Absent} \cup {Num(n) : n \in AnalysisSoilValues}]

NoSensorData == [mapping |-> TRUE, soil_moisture |-> Absent]

\* AIAnalysisSession.objects.create(...): status takes its default.
NewSession ==
    [status |-> "running", completed_at |-> 0, predictions_generated |-> 0,
     recommendations |-> <<>>, critical_alerts |-> <<>>]

TerminalStatus == {"completed", "failed", "cancelled"}

\* gemini_result.get(key, []) on the list-valued keys.
ResultList(result, key) ==
    IF key \in result.keys
      THEN (IF key = "insights" THEN result.insights ELSE result.action_plan)
      ELSE <<>>

IdleCall ==
    /\ caller = "direct"
    /\ all_sensor_data = NoSensorData
    /\ field_params = "None"
    /\ plant_params = "None"
    /\ a_pc = "idle"
    /\ phase = "PENDING"
    /\ prompt_built = FALSE
    /\ model_calls = 0
    /\ parse_calls = 0
    /\ response = NoResponse
    /\ gemini_result = NoResult

\* The request is over: its locals are gone.
EndRequest ==
    /\ caller' = "direct"
    /\ all_sensor_data' = NoSensorData
    /\ field_params' = "None"
    /\ plant_params' = "None"
    /\ a_pc' = "idle"
    /\ phase' = "PENDING"
    /\ prompt_built' = FALSE
    /\ model_calls' = 0
    /\ parse_calls' = 0
    /\ response' = NoResponse
    /\ gemini_result' = NoResult
    /\ insights_created' = 0
    /\ now' = 0

\* Session creation, data collection and the call of
\* gemini_integration.analyze_comprehensive_data.
StartAnalysis ==
    /\ a_pc = "idle"
    /\ Len(sessions) < MaxRequests
    /\ \E s \in ViewSensors, fp \in FieldParams, pp \in PlantParams :
        /\ all_sensor_data' = s
        /\ field_params' = fp
        /\ plant_params' = pp
    /\ sessions' = Append(sessions, NewSession)
    /\ caller' = "view"
    /\ a_pc' = "check"
    /\ phase' = "PENDING"
    /\ UNCHANGED <<prompt_built, model_calls, parse_calls, response, gemini_result>>
    /\ UNCHANGED <<insights_created, now, http_status>>
    /\ UNCHANGED <<use_real_api, coreVars>>

\* "Update session with results" up to session.save().
UpdateSession ==
    /\ a_pc = "returned"
    /\ caller = "view"
    /\ LET id == Len(sessions)
           alert == IF Get(all_sensor_data.soil_moisture, 50).v < 25
                      THEN <<"critical_soil_moisture">> ELSE <<>>
       IN  sessions' = [sessions EXCEPT ![id] =
               [status |-> "completed",
                completed_at |-> now + 1,
                predictions_generated |-> 1,
                recommendations |-> ResultList(gemini_result, "action_plan"),
                critical_alerts |-> @.critical_alerts \o alert]]
    /\ now' = now + 1
    /\ a_pc' = "insights"
    /\ UNCHANGED <<caller, all_sensor_data, field_params, plant_params, phase,
                   prompt_built, model_calls, parse_calls, response, gemini_result>>
    /\ UNCHANGED <<insights_created, http_status>>
    /\ UNCHANGED <<use_real_api, coreVars>>

\* One AIInsight.objects.create of the loop: the row is written, or the
\* database raises and control passes to the except clause of the view.
CreateInsight ==
    /\ a_pc = "insights"
    /\ insights_created < Len(ResultList(gemini_result, "insights"))
    /\ \/ /\ insights_created' = insights_created + 1
          /\ a_pc' = "insights"
       \/ /\ insights_created' = insights_created
          /\ a_pc' = "handler"
    /\ UNCHANGED <<caller, all_sensor_data, field_params, plant_params, phase,
                   prompt_built, model_calls, parse_calls, response, gemini_result>>
    /\ UNCHANGED <<sessions, now, http_status>>
    /\ UNCHANGED <<use_real_api, coreVars>>

\* return Response({...}, status=HTTP_200_OK)
Respond ==
    /\ a_pc = "insights"
    /\ insights_created = Len(ResultList(gemini_result, "insights"))
    /\ http_status' = 200
    /\ EndRequest
    /\ UNCHANGED sessions
    /\ UNCHANGED <<use_real_api, coreVars>>

\* except Exception: the session is marked failed and saved again.
HandleException ==
    /\ a_pc = "handler"
    /\ sessions' = [sessions EXCEPT ![Len(sessions)] =
           [@ EXCEPT !.status = "failed", !.completed_at = now + 1]]
    /\ http_status' = 500
    /\ EndRequest
    /\ UNCHANGED <<use_real_api, coreVars>>

-----------------------------------------------------------------------------
(* Specification of the irrigation predictor: one call per step *)

NoSensor == [mapping |-> TRUE, soil_moisture |-> Absent,
             air_humidity |-> Absent, temperature |-> Absent]
NoWeather == [mapping |-> TRUE, rainfall_forecast |-> Absent]

\* The state before the call returns: no dict has been produced yet.
NoPrediction ==
    [keys |-> {}, error |-> "", need_irrigation |-> FALSE, irrigation_score |-> 0,
     confidence_score |-> 0, recommendation |-> "", optimal_timing |-> NoTiming,
     reasoning |-> <<>>, predicted_duration_minutes |-> 0, water_amount_ml |-> 0]

IdlePredictor ==
    /\ sensor_data = NoSensor
    /\ weather_data = NoWeather
    /\ current_hour = 0
    /\ pred_pc = "idle"
    /\ prediction = NoPrediction
    /\ raised = FALSE

NoHealthSensor == [mapping |-> TRUE, soil_moisture |-> Absent,
                   temperature |-> Absent, ph |-> Absent]
NoPlant == [mapping |-> TRUE, days_since_planted |-> Absent, height |-> Absent]

\* The state before analyze_plant_health returns.
NoHealth ==
    [keys |-> {}, error |-> "", overall_health_score |-> 0, health_status |-> "",
     growth_score |-> 0, stress_level |-> 0, environment_score |-> 0,
     recommendations |-> <<>>, risk_factors |-> <<>>]

\* The parser is not being called.
IdleParse ==
    /\ response_text = EmptyText
    /\ parse_sensor = NoSensorData
    /\ parse_pc = "idle"
    /\ parsed = NoAnalysis

NoRequest == [view |-> "", http |-> 0]

\* No IrrigationEvent row exists and no controller request was served.
IdleEvents ==
    /\ events = <<>>
    /\ ev_clock = 0
    /\ last_request = NoRequest

IdleAux == IdleParse /\ IdleEvents

\* A thread that has not called yet.
NoReturn == [value |-> NoHealth, model_version |-> "", timestamp |-> 0]

NoInvocation ==
    [pc |-> "idle", fn |-> "", args |-> [sensor |-> NoSensor, other |-> NoWeather],
     hour |-> 0, started |-> 0, result |-> NoReturn]

\* The instances as created at import: nobody is calling them.
IdleShared ==
    /\ instances = ModuleInstances
    /\ invocation = [t \in Threads |-> NoInvocation]
    /\ clock = 0

IdleHealth ==
    /\ health_sensor = NoHealthSensor
    /\ plant_data = NoPlant
    /\ health_pc = "idle"
    /\ health = NoHealth
    /\ health_raised = FALSE

IdleView ==
    /\ sessions = <<>>
    /\ insights_created = 0
    /\ now = 0
    /\ http_status = 0

\* A caller holds any pair of snapshots at any hour of the day.
PredInit ==
    /\ sensor_data \in SensorSnapshots
    /\ weather_data \in WeatherSnapshots
    /\ current_hour \in Hours
    /\ pred_pc = "called"
    /\ prediction = NoPrediction
    /\ raised = FALSE
    /\ use_real_api = FALSE
    /\ IdleCall
    /\ IdleView
    /\ IdleHealth
    /\ IdleShared
    /\ IdleAux

PredictIrrigationNeed ==
    /\ pred_pc = "called"
    /\ LET out == predict_irrigation_need(sensor_data, weather_data, current_hour)
       IN  /\ prediction' = out.value
           /\ raised' = out.raised
    /\ pred_pc' = "returned"
    /\ UNCHANGED <<sensor_data, weather_data, current_hour>>
    /\ UNCHANGED <<healthVars, sharedVars, auxVars, analysisVars>>

PredNext == PredictIrrigationNeed

PredSpec == PredInit /\ [][PredNext]_vars

-----------------------------------------------------------------------------
(* Specification of the irrigation predictor over every hour of the day *)

HoursOfDay == 0..23

TimingSensors ==
    [mapping : {TRUE}, soil_moisture : {Num(20), Num(60)},
     air_humidity : {Absent}, temperature : {Num(10), Num(36), Absent}]

TimingWeather ==
    [mapping : {TRUE}, rainfall_forecast : {Num(0), Num(20), Absent}]

TimingInit ==
    /\ sensor_data \in TimingSensors
    /\ weather_data \in TimingWeather
    /\ current_hour \in HoursOfDay
    /\ pred_pc = "called"
    /\ prediction = NoPrediction
    /\ raised = FALSE
    /\ use_real_api = FALSE
    /\ IdleCall
    /\ IdleView
    /\ IdleHealth
    /\ IdleShared
    /\ IdleAux

TimingSpec == TimingInit /\ [][PredNext]_vars

-----------------------------------------------------------------------------
(* Specification of the plant health analyzer: one call *)

HealthInit ==
    /\ health_sensor \in HealthSensors
    /\ plant_data \in PlantSnapshots
    /\ health_pc = "called"
    /\ health = NoHealth
    /\ health_raised = FALSE
    /\ use_real_api = FALSE
    /\ IdlePredictor
    /\ IdleShared
    /\ IdleAux
    /\ IdleCall
    /\ IdleView

AnalyzePlantHealth ==
    /\ health_pc = "called"
    /\ LET out == analyze_plant_health(health_sensor, plant_data)
       IN  /\ health' = out.value
           /\ health_raised' = out.raised
    /\ health_pc' = "returned"
    /\ UNCHANGED <<health_sensor, plant_data>>
    /\ UNCHANGED <<predVars, sharedVars, auxVars, analysisVars>>

HealthNext == AnalyzePlantHealth

HealthSpec == HealthInit /\ [][HealthNext]_vars

-----------------------------------------------------------------------------
(* Specification of request threads calling the shared instances *)

SharedInit ==
    /\ IdleShared
    /\ IdleAux
    /\ IdlePredictor
    /\ IdleHealth
    /\ use_real_api = FALSE
    /\ IdleCall
    /\ IdleView

\* Thread t enters one of the two methods; the clock is read on entry.
SharedCall(t) ==
    /\ invocation[t].pc # "called"
    /\ clock < MaxClock
    /\ clock' = clock + 1
    /\ \E fn \in {"predict_irrigation_need", "analyze_plant_health"} :
       \E args \in (IF fn = "predict_irrigation_need"
                      THEN SharedIrrigationArgs ELSE SharedHealthArgs) :
       \E hour \in SharedHours :
          invocation' = [invocation EXCEPT ![t] =
              [pc |-> "called", fn |-> fn, args |-> args, hour |-> hour,
               started |-> clock', result |-> NoReturn]]
    /\ UNCHANGED instances
    /\ UNCHANGED <<predVars, healthVars, auxVars, analysisVars>>

\* Thread t runs the method body on the instance as it is now and returns.
SharedReturn(t) ==
    /\ invocation[t].pc = "called"
    /\ LET call == invocation[t]
       IN  /\ invocation' = [invocation EXCEPT ![t] =
                  [call EXCEPT !.pc = "returned",
                               !.result = Invoke(instances, call.fn, call.args,
                                                 call.hour, call.started)]]
           /\ instances' = InstancesAfterCall(instances, call.fn)
    /\ UNCHANGED clock
    /\ UNCHANGED <<predVars, healthVars, auxVars, analysisVars>>

SharedNext == \E t \in Threads : SharedCall(t) \/ SharedReturn(t)

SharedSpec == SharedInit /\ [][SharedNext]_vars

-----------------------------------------------------------------------------
(* Specification of the response interpreter: one call *)

AllWords ==
    CriticalWords \cup HighWords \cup ModerateWords \cup MorningWords
    \cup EveningWords
    \cup {"kritik", "issiq", "hot", "temperature", "bug'lan", "evaporation"}
    \cup {"mulch", "soyalash", "shade", "drenaj", "drainage"}

\* '8:00' is a substring of '18:00': a text with the latter has the former.
Occurring(kw) == kw \cup (IF "18:00" \in kw THEN {"8:00"} ELSE {})

\* Texts in which at most two of the keywords were written.
ParseTexts ==
    {Text(n, Occurring({a, b})) : n \in TextLengths, a \in AllWords, b \in AllWords}
    \cup {Text(n, {}) : n \in TextLengths}

ParseInit ==
    /\ response_text \in ParseTexts
    /\ parse_sensor \in AnalysisSensors
    /\ parse_pc = "called"
    /\ parsed = NoAnalysis
    /\ use_real_api = FALSE
    /\ IdlePredictor
    /\ IdleHealth
    /\ IdleShared
    /\ IdleEvents
    /\ IdleCall
    /\ IdleView

ParseText ==
    /\ parse_pc = "called"
    /\ parsed' = _parse_real_gemini_response(response_text, parse_sensor)
    /\ parse_pc' = "returned"
    /\ UNCHANGED <<response_text, parse_sensor>>
    /\ UNCHANGED <<predVars, healthVars, sharedVars, eventVars, analysisVars>>

ParseNext == ParseText

ParseSpec == ParseInit /\ [][ParseNext]_vars

-----------------------------------------------------------------------------
(* Specification of the irrigation controller: requests served one by one *)

EventInit ==
    /\ IdleEvents
    /\ IdleParse
    /\ IdlePredictor
    /\ IdleHealth
    /\ IdleShared
    /\ use_real_api = FALSE
    /\ IdleCall
    /\ IdleView

EventNext ==
    \/ start_irrigation
    \/ trigger_irrigation
    \/ stop_irrigation
    \/ emergency_stop

EventSpec == EventInit /\ [][EventNext]_vars

-----------------------------------------------------------------------------
(* Specification of analyze_comprehensive_data called on its own *)

GeminiInit ==
    /\ use_real_api \in BOOLEAN
    /\ caller = "direct"
    /\ all_sensor_data \in AnalysisSensors
    /\ field_params \in FieldParams
    /\ plant_params \in PlantParams
    /\ a_pc = "check"
    /\ phase = "PENDING"
    /\ prompt_built = FALSE
    /\ model_calls = 0
    /\ parse_calls = 0
    /\ response = NoResponse
    /\ gemini_result = NoResult
    /\ IdleView
    /\ IdlePredictor
    /\ IdleHealth
    /\ IdleShared
    /\ IdleAux

GeminiNext == CheckConfigured \/ BuildPrompt \/ CallModel \/ ParseResponse

GeminiSpec == GeminiInit /\ [][GeminiNext]_vars

\* The call is synchronous code: while a statement is left to run it runs,
\* and generate_content is taken to return or raise.
GeminiFairSpec == GeminiSpec /\ WF_vars(GeminiNext)

-----------------------------------------------------------------------------
(* Specification of the comprehensive_analysis view *)

SessionInit ==
    /\ use_real_api \in BOOLEAN
    /\ IdleCall
    /\ IdleView
    /\ IdlePredictor
    /\ IdleHealth
    /\ IdleShared
    /\ IdleAux

SessionNext ==
    \/ StartAnalysis
    \/ CheckConfigured
    \/ BuildPrompt
    \/ CallModel
    \/ ParseResponse
    \/ UpdateSession
    \/ CreateInsight
    \/ Respond
    \/ HandleException

SessionSpec == SessionInit /\ [][SessionNext]_vars

-----------------------------------------------------------------------------
(* Properties of predict_irrigation_need *)

Returned == pred_pc = "returned"
NonError == Returned /\ ~raised /\ "error" \notin prediction.keys

\* The four readings as the scorer sees them, for a call that did not fail.
InSoil == Get(sensor_data.soil_moisture, 50).v
InHumidity == Get(sensor_data.air_humidity, 60).v
InTemperature == Get(sensor_data.temperature, 25).v
InRainfall == Get(weather_data.rainfall_forecast, 0).v

\* C1: in every non-error result, need_irrigation is true iff the
\* irrigation_score field of that same result is greater than 0.7.
C1_NeedIffReportedScore ==
    NonError => (prediction.need_irrigation <=> prediction.irrigation_score > 700)

\* C6: predict_irrigation_need never raises to its caller; a snapshot that is
\* not a mapping, or a reading that is null or non-numeric, yields a result
\* with need_irrigation = false, confidence_score = 0 and an error field.
BadReading(entry) == entry.kind \in {"null", "str"}
BadInput ==
    \/ ~sensor_data.mapping
    \/ ~weather_data.mapping
    \/ BadReading(sensor_data.soil_moisture)
    \/ BadReading(sensor_data.air_humidity)
    \/ BadReading(sensor_data.temperature)
    \/ BadReading(weather_data.rainfall_forecast)

C6_NeverRaises ==
    Returned =>
        /\ ~raised
        /\ BadInput =>
            /\ "error" \in prediction.keys
            /\ prediction.error # ""
            /\ prediction.need_irrigation = FALSE
            /\ prediction.confidence_score = 0

C6_Witness ==
    /\ Returned
    /\ ~sensor_data.mapping
    /\ prediction.error = "AttributeError"

\* C7: a call with any subset of soil_moisture, air_humidity, temperature and
\* rainfall_forecast absent returns a non-error result equal to the result of
\* the call with the absent keys supplied as 50, 60, 25 and 0.
Filled(entry, documented) == IF entry = Absent THEN Num(documented) ELSE entry
FilledSensor ==
    [mapping |-> TRUE,
     soil_moisture |-> Filled(sensor_data.soil_moisture, 50),
     air_humidity |-> Filled(sensor_data.air_humidity, 60),
     temperature |-> Filled(sensor_data.temperature, 25)]
FilledWeather ==
    [mapping |-> TRUE,
     rainfall_forecast |-> Filled(weather_data.rainfall_forecast, 0)]
SomeKeyAbsent ==
    \/ sensor_data.soil_moisture = Absent
    \/ sensor_data.air_humidity = Absent
    \/ sensor_data.temperature = Absent
    \/ weather_data.rainfall_forecast = Absent

C7_MissingKeysDefault ==
    (Returned /\ ~BadInput /\ SomeKeyAbsent) =>
        /\ NonError
        /\ prediction =
             predict_irrigation_need(FilledSensor, FilledWeather, current_hour).value

C7_Witness ==
    /\ NonError
    /\ sensor_data.soil_moisture = Absent
    /\ sensor_data.temperature = Absent
    /\ weather_data.rainfall_forecast = Absent
    /\ sensor_data.air_humidity = Num(8)

\* C8: for numeric inputs the irrigation score is the weighted sum
\* 0.5*moisture + 0.2*humidity + 0.2*temperature + 0.1*rainfall clamped to
\* [0,1]; the returned irrigation_score is never below 0 nor above 1.
WeightedSum ==
    (5 * moisture_score(InSoil) + 2 * humidity_score(InHumidity)
     + 2 * temp_score(InTemperature) + rain_score(InRainfall)) \div 10
Clamp01(x) == Max(0, Min(Scale, x))

C8_ScoreIsClampedWeightedSum ==
    NonError =>
        /\ prediction.irrigation_score = Round3(Clamp01(WeightedSum))
        /\ prediction.irrigation_score >= 0
        /\ prediction.irrigation_score <= 1000

C8_Witness ==
    /\ NonError
    /\ WeightedSum > Scale
    /\ prediction.irrigation_score = 1000

\* C9 as stated: each of the four sub-scores lies in [0,1] for every numeric
\* input, including temperature above 35, negative air humidity and negative
\* rainfall forecast.
InUnit(x) == 0 <= x /\ x <= Scale

C9_SubScoresInUnitInterval ==
    NonError =>
        /\ InUnit(moisture_score(InSoil))
        /\ InUnit(humidity_score(InHumidity))
        /\ InUnit(temp_score(InTemperature))
        /\ InUnit(rain_score(InRainfall))

\* C9 amended: every sub-score is at least 0 and moisture_score lies in
\* [0.1, 1]; humidity_score is at most 1 exactly when air_humidity >= 0,
\* temperature_score exactly when temperature <= 35 and rainfall_score
\* exactly when the forecast is >= 0: only the lower bound is enforced.
C9_SubScoresFlooredOnly ==
    NonError =>
        /\ Scale \div 10 <= moisture_score(InSoil)
        /\ moisture_score(InSoil) <= Scale
        /\ humidity_score(InHumidity) >= 0
        /\ temp_score(InTemperature) >= 0
        /\ rain_score(InRainfall) >= 0
        /\ (humidity_score(InHumidity) <= Scale) <=> (InHumidity >= 0)
        /\ (temp_score(InTemperature) <= Scale) <=> (InTemperature <= 35)
        /\ (rain_score(InRainfall) <= Scale) <=> (InRainfall >= 0)

C9_Witness ==
    /\ NonError
    /\ InTemperature > 35
    /\ temp_score(InTemperature) > Scale
    /\ InHumidity > 70
    /\ humidity_score(InHumidity) = 0

\* C10: between two inputs that differ only in soil_moisture, the one with
\* the higher soil_moisture never has the higher irrigation_score, and never
\* has need_irrigation true where the lower one has it false.
WithSoil(m) ==
    predict_irrigation_need(
        [sensor_data EXCEPT !.soil_moisture = Num(m)], weather_data, current_hour).value

C10_MonotoneInSoilMoisture ==
    NonError =>
        \A m \in SoilValues :
            /\ m >= InSoil =>
                 /\ WithSoil(m).irrigation_score <= prediction.irrigation_score
                 /\ WithSoil(m).need_irrigation => prediction.need_irrigation
            /\ m <= InSoil =>
                 /\ WithSoil(m).irrigation_score >= prediction.irrigation_score
                 /\ prediction.need_irrigation => WithSoil(m).need_irrigation

C10_Witness ==
    /\ NonError
    /\ InSoil = 24
    /\ prediction.need_irrigation
    /\ ~WithSoil(25).need_irrigation
    /\ WithSoil(25).irrigation_score < prediction.irrigation_score

\* C11: moisture_score is 1.0 below 25, 0.8 below 40, 0.4 below 60 and 0.1
\* otherwise, a threshold value itself falling in the lower-need band
\* (25 -> 0.8, 40 -> 0.4, 60 -> 0.1); so moisture_score <= 0.1 from 60 on.
StepTenths(m) ==
    CASE m \in {25, 40, 60} -> (IF m = 25 THEN 8 ELSE IF m = 40 THEN 4 ELSE 1)
      [] m <= 24 -> 10
      [] m >= 26 /\ m <= 39 -> 8
      [] m >= 41 /\ m <= 59 -> 4
      [] m >= 61 -> 1

C11_MoistureStepFunction ==
    NonError =>
        /\ 10 * moisture_score(InSoil) = StepTenths(InSoil) * Scale
        /\ InSoil >= 60 => 10 * moisture_score(InSoil) <= Scale

C11_Witness ==
    /\ NonError
    /\ InSoil = 40
    /\ 10 * moisture_score(InSoil) = 4 * Scale

\* C12: in every non-error result confidence_score = min(95,
\* irrigation_score * 100) and lies in [0,95]; it is 0 only in the error
\* result or when the score is 0.
C12_ConfidenceIsCappedScore ==
    Returned =>
        /\ NonError =>
            /\ prediction.confidence_score = Min(950, prediction.irrigation_score)
            /\ prediction.confidence_score >= 0
            /\ prediction.confidence_score <= 950
        /\ prediction.confidence_score = 0 =>
            \/ "error" \in prediction.keys
            \/ prediction.irrigation_score = 0

C12_Witness ==
    /\ NonError
    /\ prediction.irrigation_score > 950
    /\ prediction.confidence_score = 950

\* C13: readings (20, 40, 30, rainfall 0) give irrigation_score 0.819,
\* need_irrigation true, confidence_score 81.9 and 20 minutes; readings
\* (70, 65, 22, rainfall 8) give 0.111, need_irrigation false and 5 minutes.
Scenario(soil, humidity, temperature, rainfall) ==
    /\ sensor_data = [mapping |-> TRUE, soil_moisture |-> Num(soil),
                      air_humidity |-> Num(humidity), temperature |-> Num(temperature)]
    /\ weather_data = [mapping |-> TRUE, rainfall_forecast |-> Num(rainfall)]

C13_DocumentedScenarios ==
    /\ (Returned /\ Scenario(20, 40, 30, 0)) =>
        /\ NonError
        /\ prediction.irrigation_score = 819
        /\ prediction.need_irrigation = TRUE
        /\ prediction.confidence_score = 819
        /\ prediction.predicted_duration_minutes = 20
    /\ (Returned /\ Scenario(70, 65, 22, 8)) =>
        /\ NonError
        /\ prediction.irrigation_score = 111
        /\ prediction.need_irrigation = FALSE
        /\ prediction.predicted_duration_minutes = 5

C13_Witness ==
    /\ Returned
    /\ Scenario(70, 65, 22, 8)
    /\ prediction.irrigation_score = 111

\* C25: for every hour 0..23 the timing is optimal in 6..8 and 18..20,
\* avoid in 10..16 and acceptable otherwise, and next_optimal is fixed by
\* the hour alone, whatever the weather snapshot and the temperature.
C25_TimingByHour ==
    (Returned /\ NonError) =>
        LET h == current_hour
            t == prediction.optimal_timing
        IN  /\ h \in (6..8) \cup (18..20) <=> t.timing = "optimal"
            /\ h \in 10..16 <=> t.timing = "avoid"
            /\ h \in {9, 17} \cup (21..23) \cup (0..5) <=> t.timing = "acceptable"
            /\ h \in (6..8) \cup (10..16)
                  => t.next_optimal = "Bugun kechqurun 18:00-20:00"
            /\ h \in 18..20 => t.next_optimal = "Ertaga ertalab 06:00-08:00"
            /\ h \in {9, 17} \cup (21..23) \cup (0..5)
                  => t.next_optimal = "Ertalab 06:00-08:00"

C25_Witness ==
    /\ Returned /\ NonError
    /\ current_hour = 21
    /\ sensor_data.temperature = Num(36)
    /\ weather_data.rainfall_forecast = Num(20)
    /\ prediction.optimal_timing.timing = "acceptable"

\* C26: water_amount_ml is 300 * max(0.5, (60 - m) / 60)
\* * (1 + max(0, (t - 20) / 40)) truncated to an integer, at least 150,
\* non-increasing in soil moisture and non-decreasing in temperature.
ExactWaterTimes8(m, t) == Max(30, 60 - m) * (40 + Max(0, t - 20))

C26_WaterAmountFormula ==
    (Returned /\ NonError) =>
        LET w == prediction.water_amount_ml
            exact8 == ExactWaterTimes8(InSoil, InTemperature)
        IN  /\ 8 * w <= exact8
            /\ exact8 < 8 * (w + 1)
            /\ w >= 150
            /\ \A m \in SoilValues :
                  m >= InSoil =>
                      _calculate_water_amount(m, InTemperature) <= w
            /\ \A t \in TemperatureValues :
                  t >= InTemperature =>
                      _calculate_water_amount(InSoil, t) >= w

-----------------------------------------------------------------------------
(* Properties of analyze_plant_health *)

HealthReturned == health_pc = "returned"

HealthNonError == HealthReturned /\ "error" \notin health.keys

PlantDays == Get(plant_data.days_since_planted, 0).v
PlantHeight == Get(plant_data.height, 0).v

\* C14: the overall_health_score of every returned result, the error
\* result included, lies in [0, 100] (0..1000 in tenths).
C14_OverallScoreInRange ==
    HealthReturned =>
        /\ health.overall_health_score >= 0
        /\ health.overall_health_score <= 1000

\* growth as the claims give it: 5 * h / (4 * d) clamped to 1 when d > 0,
\* else 1/2.
GrowthDen == IF PlantDays > 0 THEN 4 * PlantDays ELSE 2
GrowthNum == IF PlantDays > 0 THEN Min(4 * PlantDays, 5 * PlantHeight) ELSE 1

\* growth + environment + (1 - stress) as SumNum / SumDen, environment
\* and stress read back from the reported percentages (twentieths).
SumDen == 20 * GrowthDen
SumNum ==
    20 * GrowthNum
    + ((health.environment_score \div 50) + 20 - (health.stress_level \div 50))
      * GrowthDen

\* C15 as stated: overall_health_score is the sum over three, times 100,
\* rounded to a whole number.
C15_ScoreIsWholeRoundedMean ==
    HealthNonError =>
        health.overall_health_score
            = 10 * ((2 * 100 * SumNum + 3 * SumDen) \div (2 * 3 * SumDen))

\* C15 amended: overall_health_score is the tenth nearest to
\* 100 * (growth + environment + (1 - stress)) / 3.
C15_ScoreIsTenthRoundedMean ==
    HealthNonError =>
        LET t == health.overall_health_score
            diff == t * 3 * SumDen - 1000 * SumNum
        IN  /\ 2 * diff <= 3 * SumDen
            /\ 2 * diff >= -(3 * SumDen)

C15_Witness ==
    /\ HealthNonError
    /\ PlantDays = 50 /\ PlantHeight = 30
    /\ health.overall_health_score = 883

\* C16: a non-error result whose reported overall_health_score is
\* exactly 90.0, 75.0, 60.0 or 40.0 carries the status of the band that
\* starts there.
C16_ReportedBoundaryCarriesHigherTier ==
    HealthNonError =>
        /\ health.overall_health_score = 900 => health.health_status = "A'lo"
        /\ health.overall_health_score = 750 => health.health_status = "Yaxshi"
        /\ health.overall_health_score = 600 => health.health_status = "O'rtacha"
        /\ health.overall_health_score = 400 => health.health_status = "Yomon"

HealthSoil == Get(health_sensor.soil_moisture, 50).v
HealthTemperature == Get(health_sensor.temperature, 25).v
HealthPh == Get(health_sensor.ph, 68).v

\* The triggered contributions of the claim's table, in tenths.
TriggeredStress ==
    {c \in {8} : HealthSoil < 30}
    \cup {c \in {4} : HealthSoil >= 30 /\ HealthSoil < 45}
    \cup {c \in {9} : HealthTemperature < 10 \/ HealthTemperature > 32}
    \cup {c \in {3} : /\ HealthTemperature >= 10 /\ HealthTemperature <= 32
                      /\ (HealthTemperature < 15 \/ HealthTemperature > 28)}
    \cup {c \in {7} : HealthPh < 55 \/ HealthPh > 80}
    \cup {c \in {2} : /\ HealthPh >= 55 /\ HealthPh <= 80
                      /\ (HealthPh < 60 \/ HealthPh > 75)}

\* C17: stress_score is the maximum of the triggered contributions and
\* 0.1 when none is triggered (stress_level is 100 times the score).
C17_StressIsMaximum ==
    HealthNonError =>
        IF TriggeredStress = {}
          THEN health.stress_level = 100
          ELSE /\ health.stress_level \in {100 * c : c \in TriggeredStress}
               /\ \A c \in TriggeredStress : 100 * c <= health.stress_level

C17_Witness ==
    /\ HealthNonError
    /\ HealthSoil = 20 /\ HealthTemperature = 35
    /\ TriggeredStress = {8, 9}
    /\ health.stress_level = 900

ExpectedRisks ==
    (IF health.stress_level > 700 THEN <<<<"high_stress", "high">>>> ELSE <<>>)
    \o (IF HealthSoil < 25 THEN <<<<"drought_stress", "critical">>>> ELSE <<>>)
    \o (IF HealthTemperature > 35 THEN <<<<"heat_stress", "high">>>> ELSE <<>>)

C24_RiskFactorsByThreshold ==
    HealthNonError =>
        /\ Len(health.risk_factors) = Len(ExpectedRisks)
        /\ \A i \in 1..Len(health.risk_factors) :
              /\ health.risk_factors[i].type = ExpectedRisks[i][1]
              /\ health.risk_factors[i].severity = ExpectedRisks[i][2]
              /\ health.risk_factors[i].action # ""

C24_Witness ==
    /\ HealthNonError
    /\ HealthSoil = 20 /\ HealthTemperature = 36
    /\ Len(health.risk_factors) = 3
    /\ health.risk_factors[3].type = "heat_stress"

\* Some stage of the analysis raises on these inputs.
HealthBadInput ==
    \/ ~plant_data.mapping
    \/ ~health_sensor.mapping
    \/ plant_data.days_since_planted.kind \in {"null", "str"}
    \/ PlantDays > 0 /\ plant_data.height.kind \in {"null", "str"}
    \/ health_sensor.soil_moisture.kind \in {"null", "str"}
    \/ health_sensor.temperature.kind \in {"null", "str"}
    \/ health_sensor.ph.kind \in {"null", "str"}

\* C19: analyze_plant_health never raises; an exception in any stage
\* yields a result with an error field, overall_health_score 0 and
\* health_status 'unknown'.
C19_HealthNeverRaises ==
    HealthReturned =>
        /\ ~health_raised
        /\ HealthBadInput =>
              /\ "error" \in health.keys
              /\ health.error # ""
              /\ health.overall_health_score = 0
              /\ health.health_status = "unknown"

C19_Witness ==
    /\ HealthReturned
    /\ health_sensor.mapping
    /\ health_sensor.ph = Null
    /\ health.health_status = "unknown"

-----------------------------------------------------------------------------
(* Properties of the shared instances *)

\* The fields of a returned dict that the claim compares: everything but
\* timestamp and optimal_timing.
ScoringFields(result) ==
    [value |-> [k \in DOMAIN result.value \ {"optimal_timing"} |-> result.value[k]],
     model_version |-> result.model_version]

SameCall(a, b) ==
    /\ invocation[a].pc = "returned"
    /\ invocation[b].pc = "returned"
    /\ invocation[a].fn = invocation[b].fn
    /\ invocation[a].args = invocation[b].args

\* C20: two returned calls of the same method with identical inputs agree
\* on every field except timestamp and optimal_timing, whatever calls ran
\* before or between them on the shared instances.
C20_SameInputsSameScoring ==
    \A a, b \in Threads :
        SameCall(a, b) =>
            ScoringFields(invocation[a].result) = ScoringFields(invocation[b].result)

C20_Witness ==
    /\ SameCall(1, 2)
    /\ invocation[1].fn = "predict_irrigation_need"
    /\ invocation[1].hour # invocation[2].hour
    /\ invocation[1].result.timestamp = 1
    /\ invocation[2].result.timestamp = 3
    /\ invocation[1].result.value.optimal_timing
          # invocation[2].result.value.optimal_timing
    /\ invocation[1].result.model_version = "1.2.3"

-----------------------------------------------------------------------------
(* Properties of the response interpreter *)

ParsedOk == parse_pc = "returned" /\ parsed.keys = ParsedKeys

Occurs(words) == \E w \in words : w \in response_text.kw

\* C21: irrigation_urgency is critical if a critical keyword occurs, else
\* high if a high keyword occurs, else moderate if an irrigation keyword
\* occurs, else low; irrigation_recommendation names the same class.
C21_UrgencyByPrecedence ==
    ParsedOk =>
        LET class == CASE Occurs({"cyr:kritik", "critical", "urgent", "darhol",
                                  "cyr:zuur"}) -> "critical"
                       [] OTHER ->
                     CASE Occurs({"yuqori", "high", "prioritet", "tavsiya"}) -> "high"
                       [] OTHER ->
                     CASE Occurs({"sug'orish", "irrigation", "water"}) -> "moderate"
                       [] OTHER -> "low"
            sentence == [critical |-> "KRITIK - Darhol sug'orish kerak",
                         high |-> "YUQORI - Tez sug'orish tavsiya etiladi",
                         moderate |-> "O'RTACHA - Sug'orish rejalashtiring",
                         low |-> "YAXSHI - Hozircha kerak emas"]
        IN  /\ parsed.irrigation_urgency = class
            /\ parsed.irrigation_recommendation = sentence[class]

C21_Witness ==
    /\ ParsedOk
    /\ response_text.kw = {"urgent", "high"}
    /\ parsed.irrigation_urgency = "critical"

SeqToSet(q) == {q[i] : i \in 1..Len(q)}

\* C22: the risk and environment lists of a parsed response are never
\* empty; without a risk (environment) keyword the list is the single
\* sentinel, and a sentinel never stands next to a real entry.
C22_SentinelOrEntries ==
    ParsedOk =>
        /\ parsed.risk_factors # <<>>
        /\ parsed.environmental_recommendations # <<>>
        /\ ~Occurs({"kritik", "critical", "urgent", "issiq", "hot", "temperature",
                    "bug'lan", "evaporation"})
              => parsed.risk_factors = <<NoRiskSentinel>>
        /\ ~Occurs({"mulch", "soyalash", "shade", "drenaj", "drainage"})
              => parsed.environmental_recommendations = <<NoEnvSentinel>>
        /\ NoRiskSentinel \in SeqToSet(parsed.risk_factors)
              => Len(parsed.risk_factors) = 1
        /\ NoEnvSentinel \in SeqToSet(parsed.environmental_recommendations)
              => Len(parsed.environmental_recommendations) = 1

C22_Witness ==
    /\ ParsedOk
    /\ response_text.kw = {"hot", "evaporation"}
    /\ Len(parsed.risk_factors) = 2
    /\ parsed.environmental_recommendations = <<NoEnvSentinel>>

-----------------------------------------------------------------------------
(* Properties of analyze_comprehensive_data and of the view *)

CallReturned == a_pc = "returned"
ErrorContract == {"error", "message", "required_action"}
RecommendationKeys ==
    {"gemini_analysis", "insights", "action_plan", "irrigation_recommendation"}

\* C2: when the model is not configured, the model call raises or the model
\* returns empty text, the returned object has the keys error, message and
\* required_action and none of gemini_analysis, insights, action_plan,
\* irrigation_recommendation: nothing is synthesized in place of a response.
ModelUnavailable ==
    \/ ~use_real_api
    \/ response.kind = "raises"
    \/ response = Answer(EmptyText)

C2_FailureReturnsErrorObject ==
    (CallReturned /\ ModelUnavailable) =>
        /\ ErrorContract \subseteq gemini_result.keys
        /\ gemini_result.keys \cap RecommendationKeys = {}
        /\ gemini_result.gemini_analysis = NoAnalysis
        /\ gemini_result.action_plan = <<>>
        /\ gemini_result.insights = <<>>

C2_Witness ==
    /\ CallReturned
    /\ use_real_api
    /\ model_calls = 1
    /\ response = Answer(EmptyText)
    /\ gemini_result.source = "API_CALL_FAILED"

\* C3: when interpreting a non-empty model response fails, the returned
\* object carries a top-level error with message and required_action, and is
\* not a success-shaped result with source REAL_GEMINI_API and a
\* confidence_score in 92..98.
ParseFailed ==
    /\ CallReturned
    /\ parse_calls > 0
    /\ Get(all_sensor_data.soil_moisture, 50).kind \in {"null", "str"}

C3_ParseFailureIsTerminalError ==
    ParseFailed =>
        /\ ErrorContract \subseteq gemini_result.keys
        /\ ~(/\ gemini_result.source = "REAL_GEMINI_API"
             /\ gemini_result.confidence_score \in 92..98)

\* C4: a session record is created with status running, and once a terminal
\* status has been saved no later step changes its status, completed_at,
\* recommendations or critical_alerts.
SessionFrozen(i) ==
    /\ sessions'[i].status = sessions[i].status
    /\ sessions'[i].completed_at = sessions[i].completed_at
    /\ sessions'[i].recommendations = sessions[i].recommendations
    /\ sessions'[i].critical_alerts = sessions[i].critical_alerts

C4_SessionStep ==
    /\ Len(sessions') >= Len(sessions)
    /\ \A i \in 1..Len(sessions') :
        IF i > Len(sessions)
          THEN sessions'[i].status = "running"
          ELSE sessions[i].status \in TerminalStatus => SessionFrozen(i)

C4_SessionImmutableOnceTerminal == [][C4_SessionStep]_vars

\* C5: a call moves PENDING -> PROMPT_BUILT -> MODEL_CALLED -> PARSED_OK or
\* PARSE_FAILED, or ends in MODEL_CALL_FAILED, and reaches exactly one
\* terminal state; the model is called only after the prompt was built, the
\* response is parsed only after the model returned non-empty text, and a
\* prompt builder that raises (plant_count = 0) yields the error object
\* without a model call or a parse.
PhaseMoves ==
    {<<"PENDING", "PROMPT_BUILT">>, <<"PROMPT_BUILT", "MODEL_CALLED">>,
     <<"MODEL_CALLED", "PARSED_OK">>, <<"MODEL_CALLED", "PARSE_FAILED">>,
     <<"PENDING", "MODEL_CALL_FAILED">>, <<"PROMPT_BUILT", "MODEL_CALL_FAILED">>}

PromptRaises ==
    \/ plant_params = "count0"
    \/ Truthy(plant_params) /\ field_params = "None"
    \/ ~all_sensor_data.mapping

C5_Order ==
    /\ CallReturned <=> phase \in Terminal
    /\ model_calls > 0 => prompt_built
    /\ model_calls <= 1
    /\ parse_calls > 0 =>
        /\ model_calls > 0
        /\ response.kind = "text"
        /\ response.text.len > 0
    /\ phase \in {"MODEL_CALLED", "PARSED_OK", "PARSE_FAILED"} => model_calls > 0
    /\ phase \in {"PARSED_OK", "PARSE_FAILED"} <=> parse_calls > 0
    /\ (CallReturned /\ use_real_api /\ PromptRaises) =>
        /\ model_calls = 0
        /\ parse_calls = 0
        /\ phase = "MODEL_CALL_FAILED"
        /\ ErrorContract \subseteq gemini_result.keys

C5_PhaseStep ==
    /\ phase' # phase => <<phase, phase'>> \in PhaseMoves
    /\ phase \in Terminal => phase' = phase

C5_CallStateMachine ==
    /\ []C5_Order
    /\ [][C5_PhaseStep]_vars
    /\ <>(phase \in Terminal)

C5_Witness ==
    /\ CallReturned
    /\ use_real_api
    /\ plant_params = "count0"
    /\ field_params = "sized"
    /\ phase = "MODEL_CALL_FAILED"
    /\ model_calls = 0
    /\ gemini_result.error = "ZeroDivisionError"

\* C23: within one invocation the model is called at most once: never when
\* the integration is not configured, only from the call step of a
\* configured run that has not called yet, and a failed or empty call
\* returns the error object in the same step.
C23_Calls ==
    /\ model_calls <= 1
    /\ ~use_real_api => model_calls = 0

C23_CallStep ==
    model_calls' # model_calls =>
        /\ model_calls = 0
        /\ model_calls' = 1
        /\ use_real_api
        /\ ResponseFails(response') =>
              /\ a_pc' = "returned"
              /\ ErrorContract \subseteq gemini_result'.keys

C23_AtMostOneModelCall == []C23_Calls /\ [][C23_CallStep]_vars

C23_Witness ==
    /\ CallReturned
    /\ use_real_api
    /\ response.kind = "raises"
    /\ model_calls = 1
    /\ gemini_result.source = "API_CALL_FAILED"

\* C28: in a success result the action_plan has immediate_irrigation iff
\* gemini_analysis.irrigation_urgency is critical.
SuccessWithAnalysis ==
    /\ CallReturned
    /\ gemini_result.source = "REAL_GEMINI_API"
    /\ gemini_result.gemini_analysis.keys = ParsedKeys

C28_ImmediateIffCritical ==
    SuccessWithAnalysis =>
        ((\E i \in 1..Len(gemini_result.action_plan) :
              gemini_result.action_plan[i] = "immediate_irrigation")
         <=> gemini_result.gemini_analysis.irrigation_urgency = "critical")

\* C27: a request whose analysis returned an error object leaves its
\* session failed, and a session is left completed only when the analysis
\* returned a success result.
RequestEnds == caller = "view" /\ a_pc \in {"insights", "handler"} /\ a_pc' = "idle"

C27_Step ==
    RequestEnds =>
        LET status == sessions'[Len(sessions')].status
        IN  /\ "error" \in gemini_result.keys => status = "failed"
            /\ status = "completed" => gemini_result.source = "REAL_GEMINI_API"

C27_CompletedOnlyOnSuccess == [][C27_Step]_vars

-----------------------------------------------------------------------------
(* Properties of the irrigation events *)

ActiveEvents(plant) ==
    {i \in 1..Len(events) : events[i].plant = plant /\ events[i].status \in ActiveStatus}

\* C29: in every reachable state each plant has at most one event whose
\* status is scheduled or in_progress.
C29_OneActiveEventPerPlant ==
    \A plant \in Plants : Cardinality(ActiveEvents(plant)) <= 1

\* C30: after emergency_stop returns successfully no event is scheduled or
\* in_progress, and every event that was in_progress with a start_time is
\* cancelled with end_time and actual_duration_minutes recorded.
C30_Step ==
    (ev_clock' # ev_clock /\ last_request' = [view |-> "emergency_stop", http |-> 200]) =>
        /\ \A i \in 1..Len(events') : events'[i].status \notin ActiveStatus
        /\ \A i \in 1..Len(events) :
              (events[i].status = "in_progress" /\ events[i].start_time # 0) =>
                  /\ events'[i].status = "cancelled"
                  /\ events'[i].end_time # 0
                  /\ events'[i].actual_duration_minutes # -1

C30_EmergencyStopCancelsAndRecords == [][C30_Step]_vars

====
